---- MODULE Spec2Model ----
(***************************************************************************)
(* shiny-command-line: the tokenizer-to-layout pipeline of src/index.ts.   *)
(*                                                                         *)
(* A JavaScript string is a sequence of one-character strings, so that     *)
(* .length, startsWith, includes, the regular expressions and the string   *)
(* concatenations of the source are computed as the source computes them.  *)
(* "ESC" stands for the single character U+001B and "\n" for the newline.  *)
(***************************************************************************)
EXTENDS Integers, Sequences, FiniteSets, TLC

\* ------------------------------------------------------------------------
\* Bounds of the model
\* ------------------------------------------------------------------------

\* the longest command built freely from CoreWords, counted in words
MaxWords == 3

\* ------------------------------------------------------------------------
\* String helpers (JavaScript String methods)
\* ------------------------------------------------------------------------

\* s.startsWith(prefix)
startsWith(s, prefix) ==
    /\ Len(prefix) <= Len(s)
    /\ SubSeq(s, 1, Len(prefix)) = prefix

\* s.includes(sub)
includes(s, sub) ==
    \E p \in 1..(Len(s) - Len(sub) + 1) : SubSeq(s, p, p + Len(sub) - 1) = sub

\* s.charAt(p), 1-based; the empty string past the end
charAt(s, p) == IF p >= 1 /\ p <= Len(s) THEN s[p] ELSE ""

\* s.trim() is non-empty (truthy): some character is not white space
trimIsTruthy(s) == \E p \in 1..Len(s) : s[p] \notin {" ", "\t", "\n"}

\* lines.join("\n")
RECURSIVE join(_)
join(lines) ==
    IF Len(lines) = 0 THEN <<>>
    ELSE IF Len(lines) = 1 THEN lines[1]
    ELSE lines[1] \o <<"\n">> \o join(Tail(lines))

\* words.join(" "): how the input commands of the model are written
RECURSIVE joinWords(_)
joinWords(words) ==
    IF Len(words) = 0 THEN <<>>
    ELSE IF Len(words) = 1 THEN words[1]
    ELSE words[1] \o <<" ">> \o joinWords(Tail(words))

\* \d and \w of the regular expressions
Digits == {"0", "1", "2", "3", "4", "5", "6", "7", "8", "9"}
Letters == {"a", "b", "c", "d", "e", "f", "g", "h", "i", "j", "k", "l", "m",
            "n", "o", "p", "q", "r", "s", "t", "u", "v", "w", "x", "y", "z",
            "A", "B", "C", "D", "E", "F", "G", "H", "I", "J", "K", "L", "M",
            "N", "O", "P", "Q", "R", "S", "T", "U", "V", "W", "X", "Y", "Z"}
WordChars == Letters \cup Digits \cup {"_"}

\* ------------------------------------------------------------------------
\* The tokenizer: parse of shell-quote (external collaborator)
\* ------------------------------------------------------------------------

Whitespace == {" ", "\t", "\n"}
ControlChars == {"&", ";", "(", ")", "|", "<", ">"}
\* META of shell-quote: the characters that end a bare word
Meta == ControlChars \cup {" ", "\t"}
Quotes == {"\"", "'"}
TwoCharControls == {<<"|", "|">>, <<"&", "&">>, <<";", ";">>, <<"|", "&">>,
                    <<"<", "(">>, <<">", ">">>, <<">", "&">>, <<"<", "&">>}

\* length of the control operator that starts at p, 0 when none does; the
\* alternatives are tried in the order the regular expression lists them
controlLen(s, p) ==
    IF p + 1 <= Len(s) /\ SubSeq(s, p, p + 1) \in TwoCharControls THEN 2
    ELSE IF p + 2 <= Len(s) /\ SubSeq(s, p, p + 2) = <<"<", "<", "<">> THEN 3
    ELSE IF s[p] \in ControlChars THEN 1
    ELSE 0

\* index of the next occurrence of character q at or after p, 0 when none
RECURSIVE indexOf(_, _, _)
indexOf(s, q, p) ==
    IF p > Len(s) THEN 0
    ELSE IF s[p] = q THEN p
    ELSE indexOf(s, q, p + 1)

\* first index after the longest run of bare-word characters and quoted
\* segments that starts at p; p itself when no word starts there
RECURSIVE wordEnd(_, _)
wordEnd(s, p) ==
    IF p > Len(s) THEN p
    ELSE IF s[p] \in Quotes
      THEN LET q == indexOf(s, s[p], p + 1)
           IN  IF q = 0 THEN p ELSE wordEnd(s, q + 1)
    ELSE IF s[p] \in Meta \cup Whitespace THEN p
    ELSE wordEnd(s, p + 1)

\* first index at or after p that is not a word character
RECURSIVE nameEnd(_, _)
nameEnd(s, p) ==
    IF p > Len(s) THEN p
    ELSE IF s[p] \in WordChars THEN nameEnd(s, p + 1)
    ELSE p

\* the quote-removal scanner run on one matched word: the word's value, or
\* a thrown "Bad substitution" for "${}" and for "${" that is never closed.
\* The environment is empty, so "$name" is replaced by the empty string and
\* a "$" that names nothing stays.
RECURSIVE unquote(_, _, _, _)
unquote(s, i, quote, out) ==
    IF i > Len(s) THEN [ok |-> TRUE, value |-> out]
    ELSE IF quote = "'"
      THEN IF s[i] = quote THEN unquote(s, i + 1, "", out)
           ELSE unquote(s, i + 1, quote, Append(out, s[i]))
    ELSE IF quote = "\"" /\ s[i] = quote THEN unquote(s, i + 1, "", out)
    ELSE IF quote = "" /\ s[i] \in Quotes THEN unquote(s, i + 1, s[i], out)
    ELSE IF s[i] = "$"
      THEN IF charAt(s, i + 1) = "{"
             THEN IF charAt(s, i + 2) = "}" \/ indexOf(s, "}", i + 2) = 0
                    THEN [ok |-> FALSE, value |-> <<>>]
                    ELSE unquote(s, indexOf(s, "}", i + 2) + 1, quote, out)
           ELSE IF nameEnd(s, i + 1) = i + 1
             THEN unquote(s, i + 1, quote, Append(out, "$"))
           ELSE unquote(s, nameEnd(s, i + 1), quote, out)
    ELSE unquote(s, i + 1, quote, Append(out, s[i]))

\* parse(command): the tokens in order, a word as [op |-> FALSE, value] and a
\* control operator as [op |-> TRUE, value]; ok is FALSE when parse throws.
\* Characters no token can start with (white space, a quote that is never
\* closed) are skipped, as the global regular expression skips them.
RECURSIVE parseFrom(_, _, _)
parseFrom(s, p, tokens) ==
    IF p > Len(s) THEN [ok |-> TRUE, tokens |-> tokens]
    ELSE IF controlLen(s, p) > 0
      THEN parseFrom(s, p + controlLen(s, p),
                     Append(tokens, [op |-> TRUE,
                                     value |-> SubSeq(s, p, p + controlLen(s, p) - 1)]))
    ELSE IF wordEnd(s, p) = p THEN parseFrom(s, p + 1, tokens)
    ELSE LET e == wordEnd(s, p)
             w == unquote(SubSeq(s, p, e - 1), 1, "", <<>>)
         IN  IF ~w.ok THEN [ok |-> FALSE, tokens |-> <<>>]
             ELSE parseFrom(s, e, Append(tokens, [op |-> FALSE, value |-> w.value]))

parse(command) == parseFrom(command, 1, <<>>)

\* ------------------------------------------------------------------------
\* parseCommand: the classifier
\* ------------------------------------------------------------------------

\* one CommandPart; a flag the source leaves undefined is FALSE
CommandPart(type, value, isLongOption, isShortOption) ==
    [type |-> type, value |-> value,
     isLongOption |-> isLongOption, isShortOption |-> isShortOption]

\* the part pushed for one token, given the parts pushed so far
classify(parts, token) ==
    IF token.op THEN CommandPart("operator", token.value, FALSE, FALSE)
    ELSE IF startsWith(token.value, <<"-", "-">>)
      THEN CommandPart("argument", token.value, TRUE, FALSE)
    ELSE IF /\ startsWith(token.value, <<"-">>)
            /\ Len(token.value) > 1
            /\ ~(token.value[2] \in Digits)
      THEN CommandPart("argument", token.value, FALSE, TRUE)
    ELSE LET isCommand ==
                 \/ Len(parts) = 0
                 \/ \A k \in 1..Len(parts) : parts[k].type = "operator"
         IN  CommandPart(IF isCommand THEN "command" ELSE "argument",
                         token.value, FALSE, FALSE)

RECURSIVE classifyAll(_, _)
classifyAll(parts, tokens) ==
    IF Len(tokens) = 0 THEN parts
    ELSE classifyAll(Append(parts, classify(parts, Head(tokens))), Tail(tokens))

\* parseCommand(command): ok is FALSE when the tokenizer throws
parseCommand(command) ==
    LET parsed == parse(command)
    IN  IF parsed.ok THEN [ok |-> TRUE, parts |-> classifyAll(<<>>, parsed.tokens)]
        ELSE [ok |-> FALSE, parts |-> <<>>]

\* ------------------------------------------------------------------------
\* chalk (external collaborator) and applyHighlighting
\* ------------------------------------------------------------------------

\* the escape sequence ESC [ code m
ansi(code) == <<"ESC", "[">> \o code \o <<"m">>

\* a chalk style applied to a string: the empty string is returned as it is
chalkStyle(open, close, s) == IF Len(s) = 0 THEN s ELSE open \o s \o close

cyanBold(s) ==
    chalkStyle(ansi(<<"3", "6">>) \o ansi(<<"1">>),
               ansi(<<"2", "2">>) \o ansi(<<"3", "9">>), s)
yellowBold(s) ==
    chalkStyle(ansi(<<"3", "3">>) \o ansi(<<"1">>),
               ansi(<<"2", "2">>) \o ansi(<<"3", "9">>), s)
green(s) == chalkStyle(ansi(<<"3", "2">>), ansi(<<"3", "9">>), s)
blue(s) == chalkStyle(ansi(<<"3", "4">>), ansi(<<"3", "9">>), s)
magenta(s) == chalkStyle(ansi(<<"3", "5">>), ansi(<<"3", "9">>), s)
white(s) == chalkStyle(ansi(<<"3", "7">>), ansi(<<"3", "9">>), s)
blueUnderline(s) ==
    chalkStyle(ansi(<<"3", "4">>) \o ansi(<<"4">>),
               ansi(<<"2", "4">>) \o ansi(<<"3", "9">>), s)

\* applyHighlighting(part) when chalk.level is level
applyHighlighting(part, level) ==
    IF level = 0 THEN part.value
    ELSE IF part.type = "command" THEN cyanBold(part.value)
    ELSE IF part.type = "operator" THEN yellowBold(part.value)
    ELSE IF part.isLongOption THEN green(part.value)
    ELSE IF part.isShortOption THEN green(part.value)
    ELSE IF includes(part.value, <<"/">>) \/ includes(part.value, <<"\\">>)
      THEN blue(part.value)
    ELSE IF includes(part.value, <<"=">>) THEN magenta(part.value)
    ELSE IF \/ startsWith(part.value, <<"h", "t", "t", "p", ":", "/", "/">>)
            \/ startsWith(part.value, <<"h", "t", "t", "p", "s", ":", "/", "/">>)
      THEN blueUnderline(part.value)
    ELSE white(part.value)

\* ------------------------------------------------------------------------
\* prettifyCommand: the layout engine
\* ------------------------------------------------------------------------

\* the option defaults of prettifyCommand
DefaultMaxWidth == 80
DefaultIndent == <<" ", " ">>

\* ` \` appended to a line that continues
ContinuationMarker == <<" ", "\\">>

\* const partValue = !disableColors ? applyHighlighting(part) : part.value
partValue(part, options, level) ==
    IF ~options.disableColors THEN applyHighlighting(part, level) ELSE part.value

\* nextPartValue with the disableColors test forgotten on the look-ahead path
nextPartValue_AlwaysHighlighted(nextPart, options, level) ==
    applyHighlighting(nextPart, level)

\* const nextPartValue = !disableColors ? applyHighlighting(nextPart) : nextPart.value
nextPartValue(nextPart, options, level) ==
    IF ~options.disableColors THEN applyHighlighting(nextPart, level)
    ELSE nextPart.value

\* prettifyStart with the width test written < instead of <=
prettifyStart_StrictWidth(command, options) ==
    LET parsed == parseCommand(command)
    IN  IF ~parsed.ok
          THEN [returns |-> TRUE, value |-> command, parts |-> <<>>]
        ELSE IF Len(parsed.parts) = 0
          THEN [returns |-> TRUE, value |-> command, parts |-> <<>>]
        ELSE IF Len(command) < options.maxWidth
          THEN [returns |-> TRUE, value |-> command, parts |-> <<>>]
        ELSE [returns |-> FALSE, value |-> <<>>, parts |-> parsed.parts]

\* prettifyStart whose catch returns the empty string instead of the command
prettifyStart_CatchReturnsEmpty(command, options) ==
    LET parsed == parseCommand(command)
    IN  IF ~parsed.ok
          THEN [returns |-> TRUE, value |-> <<>>, parts |-> <<>>]
        ELSE IF Len(parsed.parts) = 0
          THEN [returns |-> TRUE, value |-> command, parts |-> <<>>]
        ELSE IF Len(command) <= options.maxWidth
          THEN [returns |-> TRUE, value |-> command, parts |-> <<>>]
        ELSE [returns |-> FALSE, value |-> <<>>, parts |-> parsed.parts]

\* the try block up to the loop, and the catch: the call returns the command
\* as it is when the tokenizer throws, when there are no parts and when the
\* command is short enough; otherwise the loop runs over parts
prettifyStart(command, options) ==
    LET parsed == parseCommand(command)
    IN  IF ~parsed.ok
          THEN [returns |-> TRUE, value |-> command, parts |-> <<>>]
        ELSE IF Len(parsed.parts) = 0
          THEN [returns |-> TRUE, value |-> command, parts |-> <<>>]
        ELSE IF Len(command) <= options.maxWidth
          THEN [returns |-> TRUE, value |-> command, parts |-> <<>>]
        ELSE [returns |-> FALSE, value |-> <<>>, parts |-> parsed.parts]

\* placeOperator that puts a space before ";" as before the other operators
placeOperator_SemicolonSpaced(part, pv, currentLine, result) ==
    IF part.value \in {<<"&", "&">>, <<"|", "|">>, <<"|">>, <<";">>}
      THEN [currentLine |-> <<>>,
            result |-> Append(result, currentLine \o <<" ">> \o pv)]
    ELSE [currentLine |-> currentLine \o <<" ">> \o pv, result |-> result]

\* an operator part
placeOperator(part, pv, currentLine, result) ==
    IF part.value \in {<<"&", "&">>, <<"|", "|">>, <<"|">>}
      THEN [currentLine |-> <<>>,
            result |-> Append(result, currentLine \o <<" ">> \o pv)]
    ELSE IF part.value = <<";">>
      THEN [currentLine |-> <<>>, result |-> Append(result, currentLine \o pv)]
    ELSE [currentLine |-> currentLine \o <<" ">> \o pv, result |-> result]

\* an argument part: flags on new lines, else the width rule
placeArgument(part, pv, currentLine, result, options) ==
    LET argWithSpace == <<" ">> \o pv
    IN  IF options.flagsOnNewLine /\ (part.isLongOption \/ part.isShortOption)
          THEN IF trimIsTruthy(currentLine)
                 THEN [currentLine |-> options.indent \o pv,
                       result |-> Append(result, currentLine \o ContinuationMarker)]
                 ELSE [currentLine |-> currentLine \o argWithSpace,
                       result |-> result]
        ELSE IF /\ Len(currentLine) + Len(argWithSpace) > options.maxWidth
                /\ Len(currentLine) > 0
          THEN [currentLine |-> options.indent \o pv,
                result |-> Append(result, currentLine \o ContinuationMarker)]
        ELSE [currentLine |-> currentLine \o argWithSpace, result |-> result]

\* lookAhead that breaks before the value but forgets the i++ that skips it
lookAhead_NoSkip(parts, i, currentLine, result, options, level) ==
    LET part == parts[i]
        isLastPart == i = Len(parts)
        stay == [currentLine |-> currentLine, result |-> result, skip |-> FALSE]
    IN  IF part.isLongOption /\ ~isLastPart /\ ~options.flagsOnNewLine
          THEN LET nextPart == parts[i + 1]
               IN  IF /\ nextPart.type = "argument"
                      /\ ~nextPart.isLongOption
                      /\ ~nextPart.isShortOption
                     THEN LET npv == nextPartValue(nextPart, options, level)
                              nextArgWithSpace == <<" ">> \o npv
                          IN  IF Len(currentLine) + Len(nextArgWithSpace)
                                     > options.maxWidth
                                THEN [currentLine |-> options.indent \o npv,
                                      result |-> Append(result,
                                                   currentLine \o ContinuationMarker),
                                      skip |-> FALSE]
                                ELSE stay
                     ELSE stay
          ELSE stay

\* after a long option: break before its value and skip it, when the value
\* would not fit; i is the index of the option, skip tells whether i++ ran
lookAhead(parts, i, currentLine, result, options, level) ==
    LET part == parts[i]
        isLastPart == i = Len(parts)
        stay == [currentLine |-> currentLine, result |-> result, skip |-> FALSE]
    IN  IF part.isLongOption /\ ~isLastPart /\ ~options.flagsOnNewLine
          THEN LET nextPart == parts[i + 1]
               IN  IF /\ nextPart.type = "argument"
                      /\ ~nextPart.isLongOption
                      /\ ~nextPart.isShortOption
                     THEN LET npv == nextPartValue(nextPart, options, level)
                              nextArgWithSpace == <<" ">> \o npv
                          IN  IF Len(currentLine) + Len(nextArgWithSpace)
                                     > options.maxWidth
                                THEN [currentLine |-> options.indent \o npv,
                                      result |-> Append(result,
                                                   currentLine \o ContinuationMarker),
                                      skip |-> TRUE]
                                ELSE stay
                     ELSE stay
          ELSE stay

\* one iteration of the for loop on parts[i]; i is 1-based
loopBody(parts, i, currentLine, result, options, level) ==
    LET part == parts[i]
        pv == partValue(part, options, level)
    IN  IF part.type = "command"
          THEN [i |-> i + 1, currentLine |-> pv, result |-> result]
        ELSE IF part.type = "operator"
          THEN LET o == placeOperator(part, pv, currentLine, result)
               IN  [i |-> i + 1, currentLine |-> o.currentLine, result |-> o.result]
        ELSE LET a == placeArgument(part, pv, currentLine, result, options)
                 l == lookAhead(parts, i, a.currentLine, a.result, options, level)
             IN  [i |-> IF l.skip THEN i + 2 ELSE i + 1,
                  currentLine |-> l.currentLine, result |-> l.result]

\* if (currentLine) result.push(currentLine)
finalLines(currentLine, result) ==
    IF Len(currentLine) > 0 THEN Append(result, currentLine) ELSE result

RECURSIVE runLoop(_, _, _, _, _, _)
runLoop(parts, i, currentLine, result, options, level) ==
    IF i > Len(parts) THEN join(finalLines(currentLine, result))
    ELSE LET st == loopBody(parts, i, currentLine, result, options, level)
         IN  runLoop(parts, st.i, st.currentLine, st.result, options, level)

\* prettifyCommand(command, options) when chalk.level is level
prettifyCommand(command, options, level) ==
    LET s == prettifyStart(command, options)
    IN  IF s.returns THEN s.value
        ELSE runLoop(s.parts, 1, <<>>, <<>>, options, level)

\* ------------------------------------------------------------------------
\* shouldPrettifyCommand, getCommandPreview, prettifyCommands
\* ------------------------------------------------------------------------

\* (command.match(/--\w+/g) || []).length, scanning from p
RECURSIVE countLongOptions(_, _)
countLongOptions(s, p) ==
    IF p + 2 > Len(s) THEN 0
    ELSE IF s[p] = "-" /\ s[p + 1] = "-" /\ s[p + 2] \in WordChars
      THEN 1 + countLongOptions(s, nameEnd(s, p + 2))
    ELSE countLongOptions(s, p + 1)

\* shouldPrettifyCommand with the count test written >= 3 instead of > 3
shouldPrettifyCommand_AtLeastThree(command, threshold) ==
    \/ Len(command) > threshold
    \/ includes(command, <<"&", "&">>)
    \/ includes(command, <<"|", "|">>)
    \/ includes(command, <<";">>)
    \/ includes(command, <<"|">>)
    \/ countLongOptions(command, 1) >= 3

shouldPrettifyCommand(command, threshold) ==
    \/ Len(command) > threshold
    \/ includes(command, <<"&", "&">>)
    \/ includes(command, <<"|", "|">>)
    \/ includes(command, <<";">>)
    \/ includes(command, <<"|">>)
    \/ countLongOptions(command, 1) > 3

\* the value of a pretty field that is undefined
Undefined == <<"undefined">>

\* getCommandPreview that fills pretty whenever the decision is true
getCommandPreview_IgnoresShowPretty(command, showPretty, options, level) ==
    LET shouldPrettify == shouldPrettifyCommand(command, options.maxWidth)
    IN  [original |-> command,
         pretty |-> IF shouldPrettify
                      THEN prettifyCommand(command, options, level)
                      ELSE Undefined,
         shouldPrettify |-> shouldPrettify]

getCommandPreview(command, showPretty, options, level) ==
    LET shouldPrettify == shouldPrettifyCommand(command, options.maxWidth)
    IN  [original |-> command,
         pretty |-> IF showPretty /\ shouldPrettify
                      THEN prettifyCommand(command, options, level)
                      ELSE Undefined,
         shouldPrettify |-> shouldPrettify]

\* prettifyCommands that returns the results in reverse order
prettifyCommands_Reversed(commands, options, level) ==
    [k \in 1..Len(commands) |->
        prettifyCommand(commands[Len(commands) + 1 - k], options, level)]

\* commands.map((cmd) => prettifyCommand(cmd, options))
prettifyCommands(commands, options, level) ==
    [k \in 1..Len(commands) |-> prettifyCommand(commands[k], options, level)]

\* ------------------------------------------------------------------------
\* The inputs of the model
\* ------------------------------------------------------------------------

\* the words the free commands are built from: a plain word, a long option,
\* an operator that breaks the line and one that does not
CoreWords == {<<"a">>, <<"-", "-", "x">>, <<"&", "&">>, <<">">>}

\* every command of one to MaxWords core words separated by single spaces
CoreCommands ==
    {joinWords(ws) : ws \in UNION {[1..n -> CoreWords] : n \in 1..MaxWords}}

\* npm run build && npm run test --coverage --verbose && npm run deploy --env=production: the example of the doc comment of prettifyCommand, 85 characters
DocExample ==
    <<"n", "p", "m", " ", "r", "u", "n", " ", "b", "u", "i", "l", "d", " ",
      "&", "&", " ", "n", "p", "m", " ", "r", "u", "n", " ", "t", "e", "s",
      "t", " ", "-", "-", "c", "o", "v", "e", "r", "a", "g", "e", " ", "-",
      "-", "v", "e", "r", "b", "o", "s", "e", " ", "&", "&", " ", "n", "p",
      "m", " ", "r", "u", "n", " ", "d", "e", "p", "l", "o", "y", " ", "-",
      "-", "e", "n", "v", "=", "p", "r", "o", "d", "u", "c", "t", "i", "o",
      "n">>

\* docker run -d --name myapp -p 3000:3000 -e NODE_ENV=production myapp:latest: the flagsOnNewLine example of the README, 75 characters
ReadmeDocker ==
    <<"d", "o", "c", "k", "e", "r", " ", "r", "u", "n", " ", "-", "d", " ",
      "-", "-", "n", "a", "m", "e", " ", "m", "y", "a", "p", "p", " ", "-",
      "p", " ", "3", "0", "0", "0", ":", "3", "0", "0", "0", " ", "-", "e",
      " ", "N", "O", "D", "E", "_", "E", "N", "V", "=", "p", "r", "o", "d",
      "u", "c", "t", "i", "o", "n", " ", "m", "y", "a", "p", "p", ":", "l",
      "a", "t", "e", "s", "t">>

\* a --x ${: the tokenizer throws: "${" is never closed
BadSubstitution ==
    <<"a", " ", "-", "-", "x", " ", "$", "{">>

\* a --x "b: a double quote that is never closed
OpenQuote ==
    <<"a", " ", "-", "-", "x", " ", "\"", "b">>

\* a "b c" --x: a quoted word with a space in it
QuotedWord ==
    <<"a", " ", "\"", "b", " ", "c", "\"", " ", "-", "-", "x">>

\* a "" --x: an empty quoted word
EmptyWord ==
    <<"a", " ", "\"", "\"", " ", "-", "-", "x">>

\* a http://h -v: a plain argument that is a URL
HttpUrl ==
    <<"a", " ", "h", "t", "t", "p", ":", "/", "/", "h", " ", "-", "v">>

\* a --x https://h: a plain argument that is a URL, after a long option
HttpsUrl ==
    <<"a", " ", "-", "-", "x", " ", "h", "t", "t", "p", "s", ":", "/", "/",
      "h">>

\* a k=v --x: a key=value argument
KeyValue ==
    <<"a", " ", "k", "=", "v", " ", "-", "-", "x">>

\* a ./p --x: a path argument
PathArg ==
    <<"a", " ", ".", "/", "p", " ", "-", "-", "x">>

\* a -5 --x: -5 is no short option
NegativeNumber ==
    <<"a", " ", "-", "5", " ", "-", "-", "x">>

\* c --a --b --c: three matches of --\w+
ThreeLongOptions ==
    <<"c", " ", "-", "-", "a", " ", "-", "-", "b", " ", "-", "-", "c">>

\* c --a --b --c --d: four matches of --\w+
FourLongOptions ==
    <<"c", " ", "-", "-", "a", " ", "-", "-", "b", " ", "-", "-", "c", " ",
      "-", "-", "d">>

\* a || b
OrChain ==
    <<"a", " ", "|", "|", " ", "b">>

\* a | b -v
Pipe ==
    <<"a", " ", "|", " ", "b", " ", "-", "v">>

\* a; b --x
Semicolon ==
    <<"a", ";", " ", "b", " ", "-", "-", "x">>

\* a -- - ---: "--" and "-" alone, and dashes no word character follows
BareDashes ==
    <<"a", " ", "-", "-", " ", "-", " ", "-", "-", "-">>

\* a -v b -v: short options around a plain argument
ShortOptions ==
    <<"a", " ", "-", "v", " ", "b", " ", "-", "v">>

\* --x "": a long option whose value is an empty quoted word
EmptyValue ==
    <<"-", "-", "x", " ", "\"", "\"">>

Curated ==
    {DocExample, ReadmeDocker, BadSubstitution, OpenQuote,
     QuotedWord, EmptyWord, HttpUrl, HttpsUrl,
     KeyValue, PathArg, NegativeNumber, ThreeLongOptions,
     FourLongOptions, OrChain, Pipe, Semicolon,
     BareDashes, ShortOptions, EmptyValue}

Commands == CoreCommands \cup Curated

\* maxWidth: two narrow widths the small commands exceed, and the default
MaxWidths == {4, 8, DefaultMaxWidth}
\* indent: the default and the empty string
Indents == {DefaultIndent, <<>>}
\* chalk.level: no colors, basic colors, true color
ColorLevels == {0, 1, 3}

Options ==
    [maxWidth : MaxWidths, indent : Indents,
     flagsOnNewLine : BOOLEAN, disableColors : BOOLEAN]

\* the other commands of a batch
BatchRests == {<<>>, <<Pipe, KeyValue>>}

\* ------------------------------------------------------------------------
\* The state machine: one call of the library on one input
\* ------------------------------------------------------------------------

VARIABLES
    command,      \* the command string of the call
    options,      \* maxWidth, indent, flagsOnNewLine, disableColors
    level,        \* chalk.level of the environment
    call,         \* the exported function that was called, "none" before
    pc,           \* "idle", "loop" (inside the for loop) or "done"
    parts,        \* prettifyCommand: parts
    i,            \* prettifyCommand: the loop index, 1-based
    currentLine,  \* prettifyCommand: currentLine
    result,       \* prettifyCommand: result
    out,          \* the string prettifyCommand returned
    should,       \* the boolean shouldPrettifyCommand returned
    showPretty,   \* getCommandPreview: options.showPretty
    preview,      \* the CommandPreview getCommandPreview returned
    commands,     \* prettifyCommands: commands
    batch         \* the array prettifyCommands returned

vars == <<command, options, level, call, pc, parts, i, currentLine, result,
          out, should, showPretty, preview, commands, batch>>

inputs == <<command, options, level>>
locals == <<parts, i, currentLine, result>>

NoPreview == [original |-> <<>>, pretty |-> Undefined, shouldPrettify |-> FALSE]

Init ==
    /\ command \in Commands
    /\ options \in Options
    /\ level \in ColorLevels
    /\ call = "none"
    /\ pc = "idle"
    /\ parts = <<>>
    /\ i = 1
    /\ currentLine = <<>>
    /\ result = <<>>
    /\ out = <<>>
    /\ should = FALSE
    /\ showPretty = FALSE
    /\ preview = NoPreview
    /\ commands = <<>>
    /\ batch = <<>>

\* prettifyCommand is called: it returns at once, or enters the loop
PrettifyEnter ==
    /\ pc = "idle"
    /\ call' = "prettifyCommand"
    /\ LET s == prettifyStart(command, options)
       IN  IF s.returns
             THEN /\ pc' = "done"
                  /\ out' = s.value
                  /\ UNCHANGED locals
             ELSE /\ pc' = "loop"
                  /\ parts' = s.parts
                  /\ i' = 1
                  /\ currentLine' = <<>>
                  /\ result' = <<>>
                  /\ UNCHANGED out
    /\ UNCHANGED <<inputs, should, showPretty, preview, commands, batch>>

\* one iteration of the for loop
PrettifyStep ==
    /\ pc = "loop"
    /\ i <= Len(parts)
    /\ LET st == loopBody(parts, i, currentLine, result, options, level)
       IN  /\ i' = st.i
           /\ currentLine' = st.currentLine
           /\ result' = st.result
    /\ UNCHANGED <<inputs, call, pc, parts, out, should, showPretty, preview,
                   commands, batch>>

\* the loop is over: the last line is pushed and the lines are joined
PrettifyReturn ==
    /\ pc = "loop"
    /\ i > Len(parts)
    /\ result' = finalLines(currentLine, result)
    /\ out' = join(result')
    /\ pc' = "done"
    /\ UNCHANGED <<inputs, call, parts, i, currentLine, should, showPretty,
                   preview, commands, batch>>

\* shouldPrettifyCommand(command, threshold) with the threshold maxWidth
ShouldPrettify ==
    /\ pc = "idle"
    /\ call' = "shouldPrettifyCommand"
    /\ should' = shouldPrettifyCommand(command, options.maxWidth)
    /\ pc' = "done"
    /\ UNCHANGED <<inputs, locals, out, showPretty, preview, commands, batch>>

\* getCommandPreview(command, {showPretty, ...options})
GetCommandPreview ==
    /\ pc = "idle"
    /\ call' = "getCommandPreview"
    /\ \E sp \in BOOLEAN :
           /\ showPretty' = sp
           /\ preview' = getCommandPreview(command, sp, options, level)
    /\ pc' = "done"
    /\ UNCHANGED <<inputs, locals, out, should, commands, batch>>

\* prettifyCommands(commands, options), the command first or last in the batch
PrettifyCommands ==
    /\ pc = "idle"
    /\ call' = "prettifyCommands"
    /\ \E rest \in BatchRests, first \in BOOLEAN :
           /\ commands' = IF first THEN <<command>> \o rest
                          ELSE rest \o <<command>>
           /\ batch' = prettifyCommands(commands', options, level)
    /\ pc' = "done"
    /\ UNCHANGED <<inputs, locals, out, should, showPretty, preview>>

Next ==
    \/ PrettifyEnter
    \/ PrettifyStep
    \/ PrettifyReturn
    \/ ShouldPrettify
    \/ GetCommandPreview
    \/ PrettifyCommands

Spec == Init /\ [][Next]_vars

\* ------------------------------------------------------------------------
\* Sanity of the model
\* ------------------------------------------------------------------------

TypeOK ==
    /\ pc \in {"idle", "loop", "done"}
    /\ call \in {"none", "prettifyCommand", "shouldPrettifyCommand",
                 "getCommandPreview", "prettifyCommands"}
    /\ i \in 1..(Len(parts) + 1)
    /\ should \in BOOLEAN

\* the loop run step by step returns what the loop run at once returns
StepwiseAgrees ==
    (call = "prettifyCommand" /\ pc = "done")
        => out = prettifyCommand(command, options, level)

\* ------------------------------------------------------------------------
\* Helpers of the properties
\* ------------------------------------------------------------------------

\* prettifyCommand has returned
Returned == call = "prettifyCommand" /\ pc = "done"

\* prettifyCommand has returned from the layout loop, not from an early return
LaidOut == Returned /\ ~prettifyStart(command, options).returns

\* s.endsWith(suffix)
endsWith(s, suffix) ==
    /\ Len(suffix) <= Len(s)
    /\ SubSeq(s, Len(s) - Len(suffix) + 1, Len(s)) = suffix

\* s.split("\n")
RECURSIVE splitLines(_)
splitLines(s) ==
    LET n == indexOf(s, "\n", 1)
    IN  IF n = 0 THEN <<s>>
        ELSE <<SubSeq(s, 1, n - 1)>> \o splitLines(SubSeq(s, n + 1, Len(s)))

\* s without its styling markers ESC [ ... m
RECURSIVE stripAnsi(_)
stripAnsi(s) ==
    IF Len(s) = 0 THEN s
    ELSE IF Head(s) = "ESC"
      THEN LET m == indexOf(s, "m", 1)
           IN  IF m = 0 THEN <<>> ELSE stripAnsi(SubSeq(s, m + 1, Len(s)))
    ELSE <<Head(s)>> \o stripAnsi(Tail(s))

\* s without its leading spaces
RECURSIVE trimStart(_)
trimStart(s) ==
    IF Len(s) > 0 /\ Head(s) = " " THEN trimStart(Tail(s)) ELSE s

\* s without the characters of drop
RECURSIVE without(_, _)
without(s, drop) ==
    IF Len(s) = 0 THEN s
    ELSE IF Head(s) \in drop THEN without(Tail(s), drop)
    ELSE <<Head(s)>> \o without(Tail(s), drop)

\* the values of the parts, concatenated in order
RECURSIVE concatValues(_)
concatValues(ps) ==
    IF Len(ps) = 0 THEN <<>> ELSE Head(ps).value \o concatValues(Tail(ps))

\* the parts of ps that are long or short options, in order
RECURSIVE optionParts(_)
optionParts(ps) ==
    IF Len(ps) = 0 THEN <<>>
    ELSE IF Head(ps).isLongOption \/ Head(ps).isShortOption
      THEN <<Head(ps)>> \o optionParts(Tail(ps))
    ELSE optionParts(Tail(ps))

\* each part of opts, in order, starts a line of its own at or after line
\* from: the line is the indent followed by the rendered option, and the
\* line before it ends with the continuation marker
RECURSIVE onOwnLines(_, _, _)
onOwnLines(lines, from, opts) ==
    IF Len(opts) = 0 THEN TRUE
    ELSE \E j \in from..Len(lines) :
             /\ j >= 2
             /\ startsWith(lines[j],
                           options.indent \o partValue(Head(opts), options, level))
             /\ endsWith(lines[j - 1], ContinuationMarker)
             /\ onOwnLines(lines, j + 1, Tail(opts))

\* the positions where /--\w+/ matches: two hyphens and a word character
LongOptionMatches(s) ==
    {p \in 1..(Len(s) - 2) :
        s[p] = "-" /\ s[p + 1] = "-" /\ s[p + 2] \in WordChars}

\* a plain argument that begins with http:// or https://
IsUrlArgument(part) ==
    /\ part.type = "argument"
    /\ ~part.isLongOption
    /\ ~part.isShortOption
    /\ \/ startsWith(part.value, <<"h", "t", "t", "p", ":", "/", "/">>)
       \/ startsWith(part.value, <<"h", "t", "t", "p", "s", ":", "/", "/">>)

DefaultOptions ==
    [maxWidth |-> DefaultMaxWidth, indent |-> DefaultIndent,
     flagsOnNewLine |-> FALSE, disableColors |-> FALSE]

\* the six lines of the doc example, without their indentation
DocExampleLines ==
    <<
      <<"n", "p", "m", " ", "r", "u", "n", " ", "b", "u", "i", "l", "d", " ",
        "&", "&">>,
      <<"n", "p", "m", " ", "r", "u", "n", " ", "t", "e", "s", "t", " ",
        "\\">>,
      <<"-", "-", "c", "o", "v", "e", "r", "a", "g", "e", " ", "\\">>,
      <<"-", "-", "v", "e", "r", "b", "o", "s", "e", " ", "&", "&">>,
      <<"n", "p", "m", " ", "r", "u", "n", " ", "d", "e", "p", "l", "o", "y",
        " ", "\\">>,
      <<"-", "-", "e", "n", "v", "=", "p", "r", "o", "d", "u", "c", "t", "i",
        "o", "n">>
    >>

\* ------------------------------------------------------------------------
\* The claims
\* ------------------------------------------------------------------------

C2_ErrorReturnsOriginal ==
    (call = "prettifyCommand" /\ ~parse(command).ok)
        => (pc = "done" /\ out = command)

\* C2 witness: the tokenizer threw on a command longer than maxWidth and the
\* command came back unchanged.
C2_Witness ==
    /\ Returned
    /\ ~parse(command).ok
    /\ Len(command) > options.maxWidth
    /\ out = command

\* C3: for the doc example under the default options, prettifyCommand
\* returns the six lines of DocExampleLines: npm run build &&, then
\* npm run test, --coverage, --verbose &&, npm run deploy and
\* --env=production, each command after an operator on a line of its own and
\* each flag on a continuation line (compared without styling markers and
\* without indentation).
C3_DocExampleSixLines ==
    (Returned /\ command = DocExample /\ options = DefaultOptions)
        => [j \in 1..Len(splitLines(out)) |->
               trimStart(stripAnsi(splitLines(out)[j]))] = DocExampleLines

\* C4: with flagsOnNewLine, every long or short option of a command that
\* tokenizes is at the start of its own output line, after the indent, and
\* the line before it ends with the continuation marker, also when the
\* command is not longer than maxWidth.
C4_FlagsOnOwnLines ==
    (Returned /\ options.flagsOnNewLine /\ parseCommand(command).ok)
        => onOwnLines(splitLines(out), 1,
                      optionParts(parseCommand(command).parts))

\* C5: shouldPrettifyCommand(c, t) is true exactly when c is longer than t,
\* or contains "&&", "||", ";" or "|", or has more than 3 matches of two
\* hyphens followed by word characters.
C5_ShouldPrettifyIff ==
    (call = "shouldPrettifyCommand" /\ pc = "done")
        => (should <=>
               \/ Len(command) > options.maxWidth
               \/ includes(command, <<"&", "&">>)
               \/ includes(command, <<"|", "|">>)
               \/ includes(command, <<";">>)
               \/ includes(command, <<"|">>)
               \/ Cardinality(LongOptionMatches(command)) > 3)

\* C5 witness: a command within the threshold and without operator
\* characters is to be prettified because it has exactly 4 matches.
C5_Witness ==
    /\ call = "shouldPrettifyCommand"
    /\ pc = "done"
    /\ Len(command) <= options.maxWidth
    /\ ~includes(command, <<"&", "&">>)
    /\ ~includes(command, <<";">>)
    /\ ~includes(command, <<"|">>)
    /\ Cardinality(LongOptionMatches(command)) = 4
    /\ should

\* C6: getCommandPreview returns the command as original, the decision of
\* shouldPrettifyCommand (with maxWidth as its threshold) as shouldPrettify,
\* and a pretty field that is present exactly when showPretty and the
\* decision are both true; when present it is what prettifyCommand returns
\* under the same options.
C6_PreviewFields ==
    (call = "getCommandPreview" /\ pc = "done")
        => /\ preview.original = command
           /\ preview.shouldPrettify
                  = shouldPrettifyCommand(command, options.maxWidth)
           /\ (preview.pretty # Undefined)
                  <=> (showPretty /\ preview.shouldPrettify)
           /\ (preview.pretty # Undefined)
                  => preview.pretty = prettifyCommand(command, options, level)

\* C6 witness: a preview whose pretty field is present and is a layout of
\* several lines.
C6_Witness ==
    /\ call = "getCommandPreview"
    /\ pc = "done"
    /\ showPretty
    /\ preview.shouldPrettify
    /\ preview.pretty # Undefined
    /\ preview.pretty # command
    /\ includes(preview.pretty, <<"\n">>)

\* C7: prettifyCommands returns as many results as there are commands, and
\* the result at each index is what prettifyCommand returns for the command
\* at that index under the shared options.
C7_BatchIsMap ==
    (call = "prettifyCommands" /\ pc = "done")
        => /\ Len(batch) = Len(commands)
           /\ \A k \in 1..Len(commands) :
                  batch[k] = prettifyCommand(commands[k], options, level)

\* C7 witness: a batch of three commands with the command of the call last,
\* whose results differ from one another and the last of which was laid out.
C7_Witness ==
    /\ call = "prettifyCommands"
    /\ pc = "done"
    /\ Len(commands) = 3
    /\ commands[3] = command
    /\ batch[1] # batch[3]
    /\ batch[2] # batch[3]
    /\ batch[3] # command

\* C8: with disableColors, nothing prettifyCommand builds or returns contains
\* a styling marker, whatever chalk.level is: not the current line, not an
\* emitted line, not the returned string.
C8_NoStylingWhenDisabled ==
    (call = "prettifyCommand" /\ options.disableColors)
        => /\ ~includes(currentLine, <<"ESC">>)
           /\ \A j \in 1..Len(result) : ~includes(result[j], <<"ESC">>)
           /\ ~includes(out, <<"ESC">>)

\* C8 witness: colors are disabled in an environment with colors, and the
\* look-ahead path has placed the value of a long option on a line of its
\* own: "a --x a" at width 4 is three lines.
C8_Witness ==
    /\ Returned
    /\ options.disableColors
    /\ level > 0
    /\ command = joinWords(<<<<"a">>, <<"-", "-", "x">>, <<"a">>>>)
    /\ options.maxWidth = 4
    /\ Len(splitLines(out)) = 3

\* C9: for a command longer than maxWidth that tokenizes, the output with
\* colors disabled contains the value of every part once and in order:
\* without newlines, backslashes and spaces it is the concatenation of the
\* part values.
C9_EveryPartOnceInOrder ==
    (LaidOut /\ options.disableColors)
        => without(out, {"\n", "\\", " "})
               = without(concatValues(parts), {" "})

\* C10: with colors on, every plain argument that begins with http:// or
\* https:// is rendered in the URL style, underlined blue.
C10_UrlUnderlined ==
    (LaidOut /\ ~options.disableColors /\ level > 0)
        => \A k \in 1..Len(parts) :
               IsUrlArgument(parts[k])
                   => includes(out, blueUnderline(parts[k].value))

\* C11: in the classified sequence a part that is not an operator is a
\* command exactly when it is the first part that is not an operator or the
\* first one after an operator, and an argument otherwise: in "cmd1 && cmd2"
\* both cmd1 and cmd2 are commands. Stated here for the plain words only (an
\* option is pushed as an argument wherever it stands), which the claim
\* implies.
C11_CommandAfterEachOperator ==
    (call = "prettifyCommand" /\ pc = "loop")
        => \A k \in 1..Len(parts) :
               (/\ parts[k].type # "operator"
                /\ ~parts[k].isLongOption
                /\ ~parts[k].isShortOption)
                   => (parts[k].type = "command"
                          <=> (k = 1 \/ parts[k - 1].type = "operator"))

\* the operators that end a line
BreakingOperators == {<<"&", "&">>, <<"|", "|">>, <<"|">>, <<";">>}

\* the loop is about to process an operator part
AtOperator ==
    /\ call = "prettifyCommand"
    /\ pc = "loop"
    /\ i <= Len(parts)
    /\ parts[i].type = "operator"

\* C12: the loop step that processes an operator part with value "&&", "||",
\* "|" or ";" leaves the current line empty and emits one line, the previous
\* current line followed by the rendered operator, with one space between
\* them for "&&", "||" and "|" and none for ";"; the step that processes any
\* other operator appends a space and the rendered operator to the current
\* line and emits no line.
C12_OperatorStep ==
    [][AtOperator =>
          LET pv == partValue(parts[i], options, level)
          IN  IF parts[i].value \in {<<"&", "&">>, <<"|", "|">>, <<"|">>}
                THEN /\ currentLine' = <<>>
                     /\ result' = Append(result, currentLine \o <<" ">> \o pv)
              ELSE IF parts[i].value = <<";">>
                THEN /\ currentLine' = <<>>
                     /\ result' = Append(result, currentLine \o pv)
              ELSE /\ currentLine' = currentLine \o <<" ">> \o pv
                   /\ result' = result]_vars

\* C12 witness: the loop has just processed a ";" that followed a current
\* line with content: the line emitted last ends with the rendered ";", not
\* with a space before it, and the current line is empty.
C12_Witness ==
    /\ call = "prettifyCommand"
    /\ pc = "loop"
    /\ i > 2
    /\ parts[i - 1].type = "operator"
    /\ parts[i - 1].value = <<";">>
    /\ currentLine = <<>>
    /\ Len(result) > 0
    /\ endsWith(result[Len(result)], partValue(parts[i - 1], options, level))
    /\ ~endsWith(result[Len(result)],
                 <<" ">> \o partValue(parts[i - 1], options, level))

\* C13: the output of prettifyCommand never ends with a continuation
\* marker: the last output line does not end with it, so every line that
\* ends with it is followed by another line; also with an empty indent and
\* with empty words.
C13_NoTrailingContinuation ==
    LaidOut => ~endsWith(out, ContinuationMarker)

\* one loop iteration without the look-ahead step: the plain width rule
loopBodyPlain(ps, k, line, lines, opts, lvl) ==
    LET part == ps[k]
        pv == partValue(part, opts, lvl)
    IN  IF part.type = "command"
          THEN [i |-> k + 1, currentLine |-> pv, result |-> lines]
        ELSE IF part.type = "operator"
          THEN LET o == placeOperator(part, pv, line, lines)
               IN  [i |-> k + 1, currentLine |-> o.currentLine, result |-> o.result]
        ELSE LET a == placeArgument(part, pv, line, lines, opts)
             IN  [i |-> k + 1, currentLine |-> a.currentLine, result |-> a.result]

\* the layout the loop produces without the look-ahead step
RECURSIVE runLoopPlain(_, _, _, _, _, _)
runLoopPlain(ps, k, line, lines, opts, lvl) ==
    IF k > Len(ps) THEN join(finalLines(line, lines))
    ELSE LET st == loopBodyPlain(ps, k, line, lines, opts, lvl)
         IN  runLoopPlain(ps, st.i, st.currentLine, st.result, opts, lvl)

\* how many times the look-ahead step breaks before a value and skips it
RECURSIVE countSkips(_, _, _, _, _, _)
countSkips(ps, k, line, lines, opts, lvl) ==
    IF k > Len(ps) THEN 0
    ELSE LET st == loopBody(ps, k, line, lines, opts, lvl)
         IN  (IF st.i = k + 2 THEN 1 ELSE 0)
                 + countSkips(ps, st.i, st.currentLine, st.result, opts, lvl)

\* how many times value occurs in s
occurrences(s, value) ==
    Cardinality({p \in 1..(Len(s) - Len(value) + 1) :
                    SubSeq(s, p, p + Len(value) - 1) = value})

\* C14: without flagsOnNewLine, the layout the loop returns, look-ahead step
\* included, is the layout of the plain width rule alone: a break before an
\* argument exactly when the current line is not empty and the argument with
\* its space would exceed maxWidth.
C14_LookAheadChangesNothing ==
    (LaidOut /\ ~options.flagsOnNewLine)
        => out = runLoopPlain(parts, 1, <<>>, <<>>, options, level)

\* C14 witness: the look-ahead step has broken the line before the value of
\* a long option and skipped the value, and the value is in the output once.
C14_Witness ==
    /\ LaidOut
    /\ ~options.flagsOnNewLine
    /\ options.disableColors
    /\ countSkips(parts, 1, <<>>, <<>>, options, level) > 0
    /\ command = joinWords(<<<<"a">>, <<"-", "-", "x">>, <<"a">>>>)
    /\ occurrences(out, <<"a">>) = 2
    /\ out = runLoopPlain(parts, 1, <<>>, <<>>, options, level)

\* C15: line breaks do not depend on coloring: with colors on in an
\* environment that has colors, the output without its styling markers is
\* the output the same call returns with disableColors.
C15_BreaksIndependentOfColors ==
    (Returned /\ ~options.disableColors /\ level > 0)
        => stripAnsi(out)
               = prettifyCommand(command,
                                 [options EXCEPT !.disableColors = TRUE], level)

====
